---------------------------- MODULE Spec2Model ----------------------------
(***************************************************************************)
(* kb-color: keyboard backlight control over hidraw (src/kb-color.c).      *)
(*                                                                         *)
(* The model covers the packet encoder of send_packet, the state store     *)
(* (save_state / load_state), the argument loop of main and the discovery  *)
(* loop of send_packet over /sys/class/hidraw.                             *)
(*                                                                         *)
(* C arrays keep the source's 0-based indices: pkt is a function on        *)
(* 0..PKT_SIZE-1 and argv[i] of the source is Arg(av, i).  uint8_t values  *)
(* are kept in 0..255 by % 256 wherever the source stores into a uint8_t.  *)
(***************************************************************************)
EXTENDS Integers, Sequences, FiniteSets, TLC

VARIABLES
    pc,          \* "idle" | "build" | "built" | "scan" | "exited"
    argv,        \* argument vector of the running invocation (argv[0] included)
    file,        \* the state file: [present, bytes]
    loaded,      \* value returned by load_state in this invocation
    loadInfo,    \* what load_state found: [called, present, opened, len]
    s,           \* main's State s: [color_id, brightness]
    sendArgs,    \* <<>> or <<color_id, brightness>>: arguments of the send_packet call
    pkt,         \* send_packet's pkt[PKT_SIZE]
    idx,         \* number of entries readdir has returned
    cur,         \* the entry the last loop iteration worked on
    success,     \* send_packet's success flag
    opens,       \* indices of the entries whose device node was open()ed, in order
    xfers,       \* the ioctl transfers made: [idx, ret, pkt], in order
    wrote,       \* save_state opened the state file and wrote the record
    stderr,      \* message written to standard error ("" when none)
    exitCode,    \* exit status of the invocation (-1 while running)
    lastApplied, \* history: setting of the most recent earlier invocation whose transfer succeeded
    lastSaved,   \* history: setting of the most recent earlier invocation that wrote the file
    pristine     \* history: the state file was absent at the start and only save_state wrote it

vars == <<pc, argv, file, loaded, loadInfo, s, sendArgs, pkt, idx, cur,
          success, opens, xfers, wrote, stderr, exitCode, lastApplied, lastSaved,
          pristine>>

---------------------------------------------------------------------------
(* Bounds of the model *)
MaxEntries == 2     \* entries readdir returns in one scan, at most
MaxLines == 2       \* lines of one uevent descriptor

---------------------------------------------------------------------------
(* Constants of src/kb-color.c *)
VENDOR_ID == 4164           \* 0x1044
PRODUCT_ID == 31291         \* 0x7a3b
HID_BUS_USB == 3
PKT_SIZE == 9
PKT_REPORT_ID == 0
PKT_CMD == 8
PKT_BYTE2 == 0
PKT_BYTE3 == 1
PKT_BYTE4 == 1
PKT_BYTE7 == 1
PKT_CHECKSUM_INIT == 255
PKT_CHECKSUM_BYTES == 8
PKT_BRIGHTNESS_DIV == 2
COLOR_ID_OFF == 5
COLOR_COUNT == 7
BRIGHTNESS_MIN == 0
BRIGHTNESS_MAX == 100

USB_INPUT_IFACE == <<"i", "n", "p", "u", "t", "3">>
UEVENT_HID_ID_PREFIX == "HID_ID="

COLORS ==
    << [name |-> "red",    id |-> 1],
       [name |-> "green",  id |-> 2],
       [name |-> "yellow", id |-> 3],
       [name |-> "blue",   id |-> 4],
       [name |-> "orange", id |-> 5],
       [name |-> "purple", id |-> 6],
       [name |-> "white",  id |-> 7] >>

Uint8(x) == x % 256

---------------------------------------------------------------------------
(* send_packet, lines 126-138: the packet encoder *)

\* Variant: the percentage is stored undivided.
EncodeBrightnessNoDiv(brightness) == Uint8(brightness)

\* pkt[5] = brightness / PKT_BRIGHTNESS_DIV, stored into a uint8_t
EncodeBrightness(brightness) == Uint8(brightness \div PKT_BRIGHTNESS_DIV)

\* Variant: the color id is sent at every brightness.
EffectiveColorNoOff(color_id, brightness) == color_id

\* pkt[6] = (brightness > BRIGHTNESS_MIN) ? color_id : COLOR_ID_OFF
EffectiveColor(color_id, brightness) ==
    IF brightness > BRIGHTNESS_MIN THEN color_id ELSE COLOR_ID_OFF

\* for (i = 0; i < n; i++) sum += pkt[i];   with uint8_t sum
RECURSIVE SumBytes(_, _)
SumBytes(p, n) ==
    IF n = 0 THEN 0 ELSE Uint8(SumBytes(p, n - 1) + p[n - 1])

\* Variant: a two's-complement checksum (seed 0x100).
ChecksumTwosComplement(p) == Uint8(256 - SumBytes(p, PKT_CHECKSUM_BYTES))

\* pkt[8] = PKT_CHECKSUM_INIT - sum, stored into a uint8_t
Checksum(p) == Uint8(PKT_CHECKSUM_INIT - SumBytes(p, PKT_CHECKSUM_BYTES))

BuildPacket(color_id, brightness) ==
    LET p == [i \in 0..(PKT_SIZE - 1) |->
                CASE i = 0 -> PKT_REPORT_ID
                  [] i = 1 -> PKT_CMD
                  [] i = 2 -> PKT_BYTE2
                  [] i = 3 -> PKT_BYTE3
                  [] i = 4 -> PKT_BYTE4
                  [] i = 5 -> EncodeBrightness(brightness)
                  [] i = 6 -> EffectiveColor(color_id, brightness)
                  [] i = 7 -> PKT_BYTE7
                  [] OTHER -> 0]
    IN  [p EXCEPT ![PKT_SIZE - 1] = Checksum(p)]

NoPkt == [i \in 0..(PKT_SIZE - 1) |-> 0]


---------------------------------------------------------------------------
(* The state store, lines 72-116.  State is two uint8_t, so the record on   *)
(* disk is the two bytes (color_id, brightness) in that order.              *)

NoFile == [present |-> FALSE, bytes |-> <<>>]

StateBytes(st) == <<st.color_id, st.brightness>>

\* Variant: the two fields written in the other order.
save_state_swapped(f, color_id, brightness, canWrite) ==
    IF ~canWrite THEN f
    ELSE [present |-> TRUE, bytes |-> <<Uint8(brightness), Uint8(color_id)>>]

\* save_state: fopen(path, "wb") may fail (the directory cannot be made or
\* written), and then the function returns without touching the file.
save_state(f, color_id, brightness, canWrite) ==
    IF ~canWrite THEN f
    ELSE [present |-> TRUE,
          bytes |-> StateBytes([color_id |-> Uint8(color_id),
                                brightness |-> Uint8(brightness)])]

DefaultState ==
    [color_id |-> COLORS[COLOR_COUNT].id, brightness |-> BRIGHTNESS_MAX]

\* Variant: the record is never read.
load_state_ignores_file(f, canRead) == DefaultState

\* load_state: s starts as the default; fopen failure returns it; otherwise
\* fread(&s, sizeof(s), 1, f) stores the bytes the file holds (at most
\* sizeof(s) = 2) over s, its return value is not looked at, and the bytes
\* of s the file did not reach keep the default.
load_state(f, canRead) ==
    IF ~f.present \/ ~canRead THEN DefaultState
    ELSE LET d == StateBytes(DefaultState)
             b == [i \in 1..2 |-> IF i <= Len(f.bytes) THEN f.bytes[i] ELSE d[i]]
         IN  [color_id |-> b[1], brightness |-> b[2]]

---------------------------------------------------------------------------
(* main's argument handling, lines 118-123 and 197-225 *)

Arg(av, i) == av[i + 1]
argc(av) == Len(av)

\* for (i = 0; i < COLOR_COUNT; i++) if (strcmp(COLORS[i].name, name) == 0) return id;
RECURSIVE ColorScan(_, _)
ColorScan(name, i) ==
    IF i >= COLOR_COUNT THEN 0
    ELSE IF COLORS[i + 1].name = name THEN COLORS[i + 1].id
    ELSE ColorScan(name, i + 1)

color_id_from_name(name) == ColorScan(name, 0)

\* The characters of the tokens given as brightness values.
Chars(t) ==
    CASE t = "0"   -> <<"0">>
      [] t = "50"  -> <<"5", "0">>
      [] t = "050" -> <<"0", "5", "0">>
      [] t = "x5"  -> <<"x", "5">>
      [] t = "101" -> <<"1", "0", "1">>
      [] t = "-1"  -> <<"-", "1">>
      [] OTHER     -> <<"?">>

DigitValue(c) ==
    CASE c = "0" -> 0 [] c = "1" -> 1 [] c = "2" -> 2 [] c = "3" -> 3
      [] c = "4" -> 4 [] c = "5" -> 5 [] c = "6" -> 6 [] c = "7" -> 7
      [] c = "8" -> 8 [] c = "9" -> 9 [] OTHER -> -1

\* The digits of atoi: accumulate until the first character that is no digit.
RECURSIVE AtoiDigits(_, _, _)
AtoiDigits(cs, i, acc) ==
    IF i > Len(cs) \/ DigitValue(cs[i]) < 0 THEN acc
    ELSE AtoiDigits(cs, i + 1, 10 * acc + DigitValue(cs[i]))

\* atoi: optional sign, then digits; 0 when no digit follows.  (No token of
\* Chars starts with white space, which atoi would skip.)
atoi(t) ==
    LET cs == Chars(t)
    IN  IF Len(cs) > 0 /\ cs[1] = "-" THEN 0 - AtoiDigits(cs, 2, 0)
        ELSE IF Len(cs) > 0 /\ cs[1] = "+" THEN AtoiDigits(cs, 2, 0)
        ELSE AtoiDigits(cs, 1, 0)

MsgMissingBrightness == "Missing brightness value"
MsgBrightnessRange == "Brightness must be 0-100"
MsgMissingColor == "Missing color value"
MsgUnknownColor == "Unknown color"
MsgUnknownOption == "Unknown option"
MsgUsage == "Usage"
MsgOpendir == "opendir /sys/class/hidraw"
MsgFailed == "Failed. Try running as root or check udev rules."

\* for (int i = 1; i < argc; i++) { ... }: err is the message of the return 1
\* taken, "" when the loop ran to its end; st is s after the loop.
RECURSIVE ParseArgs(_, _, _)
ParseArgs(av, i, st) ==
    IF i >= argc(av) THEN [err |-> "", st |-> st]
    ELSE IF Arg(av, i) \in {"--brightness", "-b"} THEN
        IF i + 1 >= argc(av) THEN [err |-> MsgMissingBrightness, st |-> st]
        ELSE LET b == atoi(Arg(av, i + 1))
             IN  IF b < BRIGHTNESS_MIN \/ b > BRIGHTNESS_MAX
                 THEN [err |-> MsgBrightnessRange, st |-> st]
                 ELSE ParseArgs(av, i + 2, [st EXCEPT !.brightness = Uint8(b)])
    ELSE IF Arg(av, i) \in {"--color", "-c"} THEN
        IF i + 1 >= argc(av) THEN [err |-> MsgMissingColor, st |-> st]
        ELSE LET cid == color_id_from_name(Arg(av, i + 1))
             IN  IF cid = 0
                 THEN [err |-> MsgUnknownColor, st |-> st]
                 ELSE ParseArgs(av, i + 2, [st EXCEPT !.color_id = cid])
    ELSE [err |-> MsgUnknownOption, st |-> st]

---------------------------------------------------------------------------
(* send_packet's discovery loop, lines 140-184.                             *)
(*                                                                          *)
(* A directory entry is [d_name, readable, lines]: d_name its name as       *)
(* characters, readable whether fopen of its device/uevent succeeds, lines  *)
(* the text of that descriptor.  A line is [prefix, nums, rest]: the text   *)
(* up to its first number, the colon-separated hexadecimal numbers that     *)
(* follow, and the characters after them.                                   *)

\* sscanf(line, "HID_ID=%04X:%08X:%08X", ...): the literal must match, then
\* up to three numbers are converted; the result is how many were.
sscanf_HID_ID(line) ==
    IF line.prefix # UEVENT_HID_ID_PREFIX THEN 0
    ELSE IF Len(line.nums) > 3 THEN 3 ELSE Len(line.nums)

\* strstr(line, needle) != NULL
strstr(hay, needle) ==
    \E k \in 0..(Len(hay) - Len(needle)) :
        \A j \in 1..Len(needle) : hay[k + j] = needle[j]

\* One fgets iteration: the two flags after the line.
LineFlags(line, m) ==
    [vid   |-> m.vid \/ (/\ sscanf_HID_ID(line) = 3
                         /\ line.nums[1] = HID_BUS_USB
                         /\ line.nums[2] = VENDOR_ID
                         /\ line.nums[3] = PRODUCT_ID),
     iface |-> m.iface \/ strstr(line.rest, USB_INPUT_IFACE)]

\* while (fgets(line, ...)) { ... } from line i on
RECURSIVE ScanLines(_, _, _)
ScanLines(lines, i, m) ==
    IF i > Len(lines) THEN m
    ELSE ScanLines(lines, i + 1, LineFlags(lines[i], m))

\* Variant: one of the two flags is enough.
AcceptsEither(m) == m.vid \/ m.iface

\* if (!match_vid || !match_iface) continue;
Accepts(m) == m.vid /\ m.iface

\* Variant: the loop does not look at success.
LoopContinuesAfterSuccess == TRUE

\* while ((e = readdir(d)) && !success), given that readdir returned an entry
LoopContinues == ~success

\* Variant: the failure return is missing.
send_packet_always_ok == IF success THEN 0 ELSE 0

\* return value of send_packet after the loop, lines 179-183
send_packet_result == IF success THEN 0 ELSE -1

NoEntry == [d_name |-> <<>>, readable |-> FALSE, lines |-> <<>>]

---------------------------------------------------------------------------
(* The inputs the specifications draw from *)

Prog == "kb-color"

BrightArgs == {"0", "50", "050", "x5", "101", "-1"}
ColorArgs == {"blue", "Blue"}

ArgvSet ==
    {<<Prog>>, <<Prog, "--list">>, <<Prog, "--verbose">>,
     <<Prog, "--brightness">>, <<Prog, "-c">>,
     <<Prog, "-b", "50", "-c", "blue">>, <<Prog, "--color", "blue", "-b">>,
     <<Prog, "--color", "blue", "--brightness", "50">>,
     <<Prog, "--color", "blue", "--brightness", "0">>,
     <<Prog, "--color", "blue", "--brightness", "101">>,
     <<Prog, "--color", "pink", "--brightness", "50">>}
    \cup {<<Prog, "--brightness", v>> : v \in BrightArgs}
    \cup {<<Prog, "-c", n>> : n \in ColorArgs}

\* What the state file may hold before the first invocation: nothing, an
\* empty or one-byte record, records of other origin, a longer file.
InitFiles ==
    {NoFile}
    \cup {[present |-> TRUE, bytes |-> b] :
            b \in {<<>>, <<2>>, <<4, 200>>, <<0, 30>>, <<2, 30, 9>>}}

SeqsUpTo(S, n) == UNION {[1..k -> S] : k \in 0..n}

IdLine(bus, vid, pid) ==
    [prefix |-> UEVENT_HID_ID_PREFIX, nums |-> <<bus, vid, pid>>, rest |-> <<>>]

PhysLine(iface) ==
    [prefix |-> "HID_PHYS=usb-", nums |-> <<>>,
     rest |-> <<"/">> \o iface]

LineKinds ==
    {IdLine(HID_BUS_USB, VENDOR_ID, PRODUCT_ID),
     IdLine(HID_BUS_USB, VENDOR_ID, PRODUCT_ID + 1),
     IdLine(HID_BUS_USB + 2, VENDOR_ID, PRODUCT_ID),
     [prefix |-> UEVENT_HID_ID_PREFIX, nums |-> <<HID_BUS_USB, VENDOR_ID>>,
      rest |-> <<>>],
     [prefix |-> "MODALIAS=hid:b", nums |-> <<HID_BUS_USB, VENDOR_ID, PRODUCT_ID>>,
      rest |-> <<>>],
     PhysLine(USB_INPUT_IFACE),
     PhysLine(<<"i", "n", "p", "u", "t", "0">>)}

DirNames == {<<".">>, <<"h", "i", "d", "r", "a", "w", "0">>}

\* Every entry within the bounds (an unreadable descriptor has no text).
AllEntries ==
    {[d_name |-> n, readable |-> TRUE, lines |-> l] :
        n \in DirNames, l \in SeqsUpTo(LineKinds, MaxLines)}
    \cup {[d_name |-> n, readable |-> FALSE, lines |-> <<>>] : n \in DirNames}

\* The entries of a host with the keyboard: ".", a node without descriptor,
\* the keyboard's input0 node and its input3 node.
HostEntries ==
    {[d_name |-> <<".">>, readable |-> FALSE, lines |-> <<>>],
     [d_name |-> <<"h", "i", "d", "r", "a", "w", "0">>, readable |-> FALSE,
      lines |-> <<>>],
     [d_name |-> <<"h", "i", "d", "r", "a", "w", "0">>, readable |-> TRUE,
      lines |-> <<IdLine(HID_BUS_USB, VENDOR_ID, PRODUCT_ID),
                  PhysLine(<<"i", "n", "p", "u", "t", "0">>)>>],
     [d_name |-> <<"h", "i", "d", "r", "a", "w", "0">>, readable |-> TRUE,
      lines |-> <<PhysLine(USB_INPUT_IFACE),
                  IdLine(HID_BUS_USB, VENDOR_ID, PRODUCT_ID)>>]}

\* ioctl(fd, HIDIOCSFEATURE(PKT_SIZE), pkt): an error, a short count, the full count
IoctlResults == {-1, PKT_SIZE - 1, PKT_SIZE}

---------------------------------------------------------------------------
(* Actions *)

NoLoad == [called |-> FALSE, present |-> FALSE, opened |-> FALSE, len |-> 0]

\* return from main before the scan: nothing of the scan has happened
ExitEarly(code, msg) ==
    /\ pc' = "exited"
    /\ exitCode' = code
    /\ stderr' = msg

\* main up to the loop of send_packet, lines 197-227 and 125-144
Start(av, canRead, dirOk) ==
    /\ pc = "idle"
    /\ argv' = av
    /\ idx' = 0
    /\ cur' = NoEntry
    /\ success' = FALSE
    /\ opens' = <<>>
    /\ xfers' = <<>>
    /\ wrote' = FALSE
    /\ UNCHANGED <<file, lastApplied, lastSaved, pristine>>
    /\ IF argc(av) < 2 THEN
            /\ ExitEarly(1, MsgUsage)
            /\ loaded' = DefaultState /\ loadInfo' = NoLoad /\ s' = DefaultState
            /\ sendArgs' = <<>> /\ pkt' = NoPkt
       ELSE IF Arg(av, 1) = "--list" THEN
            /\ ExitEarly(0, "")
            /\ loaded' = DefaultState /\ loadInfo' = NoLoad /\ s' = DefaultState
            /\ sendArgs' = <<>> /\ pkt' = NoPkt
       ELSE LET st == load_state(file, canRead)
                r  == ParseArgs(av, 1, st)
            IN  /\ loaded' = st
                /\ loadInfo' = [called |-> TRUE,
                                present |-> file.present,
                                opened |-> file.present /\ canRead,
                                len |-> IF file.present /\ canRead
                                        THEN Len(file.bytes) ELSE 0]
                /\ s' = r.st
                /\ IF r.err # "" THEN
                        /\ ExitEarly(1, r.err)
                        /\ sendArgs' = <<>> /\ pkt' = NoPkt
                   ELSE /\ sendArgs' = <<r.st.color_id, r.st.brightness>>
                        /\ pkt' = BuildPacket(r.st.color_id, r.st.brightness)
                        /\ IF ~dirOk THEN ExitEarly(1, MsgOpendir)
                           ELSE /\ pc' = "scan"
                                /\ exitCode' = -1
                                /\ stderr' = ""

\* One iteration of the while loop of send_packet, lines 145-176: readdir
\* returns the entry e, the idx+1-th of the directory.
ScanEntry(e) ==
    /\ pc = "scan"
    /\ idx < MaxEntries
    /\ LoopContinues
    /\ idx' = idx + 1
    /\ cur' = e
    /\ UNCHANGED <<pc, argv, file, loaded, loadInfo, s, sendArgs, pkt, wrote,
                   stderr, exitCode, lastApplied, lastSaved, pristine>>
    /\ IF \/ e.d_name[1] = "."
          \/ ~e.readable
          \/ ~Accepts(ScanLines(e.lines, 1, [vid |-> FALSE, iface |-> FALSE]))
       THEN UNCHANGED <<success, opens, xfers>>
       ELSE /\ opens' = Append(opens, idx + 1)
            /\ \E openOk \in BOOLEAN, ret \in IoctlResults :
                  IF ~openOk THEN UNCHANGED <<success, xfers>>
                  ELSE /\ xfers' = Append(xfers, [idx |-> idx + 1, ret |-> ret,
                                                  pkt |-> pkt])
                       /\ success' = (ret = PKT_SIZE)

\* The end of send_packet and of main, lines 177-184 and 227-234: the loop
\* has ended, on success or because readdir returned NULL.
Finish(canWrite) ==
    /\ pc = "scan"
    /\ pc' = "exited"
    /\ UNCHANGED <<argv, loaded, loadInfo, s, sendArgs, pkt, idx, cur,
                   success, opens, xfers, lastApplied, lastSaved, pristine>>
    /\ IF send_packet_result < 0 THEN
            /\ stderr' = MsgFailed
            /\ exitCode' = 1
            /\ UNCHANGED <<file, wrote>>
       ELSE /\ stderr' = ""
            /\ exitCode' = 0
            /\ file' = save_state(file, s.color_id, s.brightness, canWrite)
            /\ wrote' = canWrite

\* The process is gone after main has returned: of all it held only the
\* state file is left for the next invocation.  The history variables take
\* the invocation in (they are kept while the file is only the program's).
Terminate ==
    /\ pc = "exited"
    /\ lastApplied' = IF pristine /\ success THEN sendArgs ELSE lastApplied
    /\ lastSaved' = IF pristine /\ wrote THEN sendArgs ELSE lastSaved
    /\ wrote' = FALSE
    /\ pc' = "idle"
    /\ argv' = <<Prog>>
    /\ loaded' = DefaultState
    /\ loadInfo' = NoLoad
    /\ s' = DefaultState
    /\ sendArgs' = <<>>
    /\ pkt' = NoPkt
    /\ idx' = 0
    /\ cur' = NoEntry
    /\ success' = FALSE
    /\ opens' = <<>>
    /\ xfers' = <<>>
    /\ stderr' = ""
    /\ exitCode' = -1
    /\ UNCHANGED <<file, pristine>>

\* send_packet's encoder alone, lines 126-138
BuildOnly ==
    /\ pc = "build"
    /\ pc' = "built"
    /\ sendArgs' = <<s.color_id, s.brightness>>
    /\ pkt' = BuildPacket(s.color_id, s.brightness)
    /\ UNCHANGED <<argv, file, loaded, loadInfo, s, idx, cur, success, opens,
                   xfers, wrote, stderr, exitCode, lastApplied, lastSaved, pristine>>

---------------------------------------------------------------------------
(* Specifications *)

InitCommon ==
    /\ argv = <<Prog>>
    /\ loaded = DefaultState
    /\ loadInfo = NoLoad
    /\ sendArgs = <<>>
    /\ pkt = NoPkt
    /\ idx = 0
    /\ cur = NoEntry
    /\ success = FALSE
    /\ opens = <<>>
    /\ xfers = <<>>
    /\ wrote = FALSE
    /\ stderr = ""
    /\ exitCode = -1
    /\ lastApplied = StateBytes(DefaultState)
    /\ lastSaved = StateBytes(DefaultState)

\* The program over any number of invocations on a host with the keyboard.
Init ==
    /\ InitCommon
    /\ pc = "idle"
    /\ s = DefaultState
    /\ file \in InitFiles
    /\ pristine = ~file.present

Next ==
    \/ \E av \in ArgvSet, canRead \in BOOLEAN, dirOk \in BOOLEAN :
          Start(av, canRead, dirOk)
    \/ \E e \in HostEntries : ScanEntry(e)
    \/ \E canWrite \in BOOLEAN : Finish(canWrite)
    \/ Terminate

Spec == Init /\ [][Next]_vars

\* The packet encoder on every color id and every brightness of the range.
PktInit ==
    /\ InitCommon
    /\ pc = "build"
    /\ s \in [color_id : 1..COLOR_COUNT, brightness : BRIGHTNESS_MIN..BRIGHTNESS_MAX]
    /\ file = NoFile
    /\ pristine = TRUE

PktNext == BuildOnly

PktSpec == PktInit /\ [][PktNext]_vars

\* One invocation over every directory within the bounds.
ScanInit == Init /\ file = NoFile

ScanNext ==
    \/ \E dirOk \in BOOLEAN : Start(<<Prog, "-b", "50", "-c", "blue">>, TRUE, dirOk)
    \/ \E e \in AllEntries : ScanEntry(e)
    \/ \E canWrite \in BOOLEAN : Finish(canWrite)

ScanSpec == ScanInit /\ [][ScanNext]_vars

\* One invocation on a host with the keyboard, run to its end.  The process
\* is single-threaded and its system calls return, so a step that can be
\* taken is taken.
ScanArgv == {<<Prog, "-b", "50", "-c", "blue">>, <<Prog, "--brightness", "0">>}

HostScanNext ==
    \/ \E av \in ScanArgv, dirOk \in BOOLEAN : Start(av, TRUE, dirOk)
    \/ \E e \in HostEntries : ScanEntry(e)
    \/ \E canWrite \in BOOLEAN : Finish(canWrite)

FairScanSpec == ScanInit /\ [][HostScanNext]_vars /\ WF_vars(HostScanNext)

---------------------------------------------------------------------------
(* Properties *)

RECURSIVE SeqSum(_)
SeqSum(q) == IF q = <<>> THEN 0 ELSE q[1] + SeqSum(Tail(q))

\* pkt as the sequence of its bytes, pkt[0] first
PktBytes(p) == [i \in 1..PKT_SIZE |-> p[i - 1]]

Last(q) == q[Len(q)]

Range(q) == {q[i] : i \in 1..Len(q)}

Accepted == \E i \in 1..Len(xfers) : xfers[i].ret = 9

\* C1: for every color id c in 1..7 and brightness b in 0..100 the packet
\* send_packet builds is the nine bytes 00 08 00 01 01 floor(b/2) (c if b > 0,
\* else 5) 01 k, with floor(b/2) in 0..50 and k = (255 - (sum of bytes 0..7
\* mod 256)) mod 256.
C1_PacketLayout ==
    pc = "built" =>
        LET c == s.color_id
            b == s.brightness
            head == <<0, 8, 0, 1, 1, b \div 2, IF b > 0 THEN c ELSE 5, 1>>
            k == (255 - (SeqSum(head) % 256)) % 256
        IN  /\ (b \div 2) \in 0..50
            /\ DOMAIN pkt = 0..8
            /\ PktBytes(pkt) = head \o <<k>>

C1_Witness ==
    /\ pc = "built"
    /\ s = [color_id |-> 3, brightness |-> 1]
    /\ PktBytes(pkt) = <<0, 8, 0, 1, 1, 0, 3, 1, 241>>

\* C2 as claimed: the nine bytes of every packet send_packet builds sum to 0
\* modulo 256.
C2_SumIsZero ==
    pc = "built" => SeqSum(PktBytes(pkt)) % 256 = 0

\* C2 as amended: the nine bytes of every packet send_packet builds sum to
\* 255 (the checksum seed 0xFF) modulo 256.
C2_SumIsSeed ==
    pc = "built" => SeqSum(PktBytes(pkt)) % 256 = 255

C2_Witness ==
    /\ pc = "built"
    /\ s = [color_id |-> 7, brightness |-> 100]
    /\ pkt[8] = 187
    /\ SeqSum(PktBytes(pkt)) = 255

\* C3 as claimed: the id written to byte 6 at brightness 0 is the id of none
\* of the seven named colors, so at brightness 0 byte 6 never equals the
\* requested color's id.
C3_OffDistinctFromColors ==
    (pc = "built" /\ s.brightness = 0) =>
        /\ \A i \in 1..COLOR_COUNT : COLORS[i].id # pkt[6]
        /\ pkt[6] # s.color_id

\* C3 as amended: the id written to byte 6 at brightness 0 is 5, which is the
\* id of the named color orange and of no other; at brightness 0 byte 6
\* equals the requested color's id exactly when orange was requested.
C3_OffIsOrange ==
    (pc = "built" /\ s.brightness = 0) =>
        /\ pkt[6] = 5
        /\ \A i \in 1..COLOR_COUNT :
              (COLORS[i].id = pkt[6]) <=> (COLORS[i].name = "orange")
        /\ (pkt[6] = s.color_id) <=> (s.color_id = color_id_from_name("orange"))

C3_Witness ==
    /\ pc = "built"
    /\ s = [color_id |-> 4, brightness |-> 0]
    /\ pkt[6] = 5

BlueFifty == <<Prog, "--color", "blue", "--brightness", "50">>

\* C4 as claimed: `--color blue --brightness 50` with a matching, accepting
\* device transmits exactly 00 08 00 01 01 19 04 01 DC (bytes 0..7 summing
\* to 0x23 = 35) and then leaves the state file holding 04 32.
C4_SentAndPersisted ==
    (pc = "exited" /\ argv = BlueFifty /\ Accepted) =>
        /\ \A i \in 1..Len(xfers) :
              PktBytes(xfers[i].pkt) = <<0, 8, 0, 1, 1, 25, 4, 1, 220>>
        /\ file = [present |-> TRUE, bytes |-> <<4, 50>>]

\* C4 as amended: `--color blue --brightness 50` with a matching, accepting
\* device transmits exactly 00 08 00 01 01 19 04 01 D7 (bytes 0..7 sum to
\* 0x28 = 40, and 255 - 40 = 215 = 0xD7) and exits 0; the state file then
\* holds 04 32 whenever save_state could open it for writing.
C4_SentAndSavedIfWritable ==
    (pc = "exited" /\ argv = BlueFifty /\ Accepted) =>
        /\ \A i \in 1..Len(xfers) :
              PktBytes(xfers[i].pkt) = <<0, 8, 0, 1, 1, 25, 4, 1, 215>>
        /\ exitCode = 0
        /\ wrote => file = [present |-> TRUE, bytes |-> <<4, 50>>]

C4_Witness ==
    /\ pc = "exited"
    /\ argv = BlueFifty
    /\ Len(xfers) = 1
    /\ xfers[1].ret = 9
    /\ PktBytes(xfers[1].pkt) = <<0, 8, 0, 1, 1, 25, 4, 1, 215>>
    /\ wrote
    /\ file.bytes = <<4, 50>>

\* C5: send_packet is only ever called with a brightness in 0..100, whatever
\* the arguments and whatever the state file holds.
C5_BrightnessInRange ==
    sendArgs # <<>> => sendArgs[2] \in 0..100

ValidationMsgs ==
    {MsgUsage, MsgMissingBrightness, MsgBrightnessRange, MsgMissingColor,
     MsgUnknownColor, MsgUnknownOption}

\* C6: an invocation that ends with a validation error opens no device node;
\* the state file changes only in the step after send_packet has succeeded
\* (its last transfer returned 9), and then to the complete pair that was
\* sent; a step that ends an invocation with exit status 1 leaves it as it was.
C6_StateOnlyAfterSuccess ==
    /\ [](stderr \in ValidationMsgs =>
            (opens = <<>> /\ xfers = <<>> /\ sendArgs = <<>> /\ exitCode = 1))
    /\ [][file' # file =>
            /\ pc = "scan" /\ pc' = "exited" /\ exitCode' = 0
            /\ xfers # <<>> /\ Last(xfers).ret = 9
            /\ file' = [present |-> TRUE, bytes |-> sendArgs]]_vars
    /\ [][(pc' = "exited" /\ exitCode' = 1) => file' = file]_vars

C6_Witness ==
    /\ pc = "exited"
    /\ argv = <<Prog, "--brightness", "0">>
    /\ loaded = [color_id |-> 4, brightness |-> 50]
    /\ Accepted
    /\ wrote
    /\ file.bytes = <<4, 0>>

\* The two facts of a descriptor, read off its lines.
HasIdentityLine(lines) ==
    \E i \in 1..Len(lines) :
        /\ lines[i].prefix = "HID_ID="
        /\ Len(lines[i].nums) >= 3
        /\ SubSeq(lines[i].nums, 1, 3) = <<3, 4164, 31291>>

HasLabelLine(lines) ==
    \E i \in 1..Len(lines) :
        \E k \in 1..Len(lines[i].rest) :
            /\ k + 5 <= Len(lines[i].rest)
            /\ SubSeq(lines[i].rest, k, k + 5) = <<"i", "n", "p", "u", "t", "3">>

\* C7: the device node of an entry is opened, and the packet sent to it, only
\* if its descriptor has both a line with the identity 0003:1044:7a3b and a
\* line containing input3, in any order; an entry with one of the two, none,
\* or an unreadable descriptor is not opened and does not end the scan.
C7_OnlyMatchingOpened ==
    (pc \in {"scan", "exited"} /\ idx >= 1) =>
        LET both == /\ cur.readable
                    /\ HasIdentityLine(cur.lines)
                    /\ HasLabelLine(cur.lines)
        IN  /\ idx \in Range(opens) => both
            /\ \A i \in 1..Len(xfers) : xfers[i].idx \in Range(opens)
            /\ ~both => (/\ idx \notin Range(opens)
                         /\ \A i \in 1..Len(xfers) : xfers[i].idx # idx
                         /\ ~success)

C7_Witness ==
    /\ pc = "scan"
    /\ idx = 2
    /\ cur.lines = <<PhysLine(USB_INPUT_IFACE),
                     IdLine(HID_BUS_USB, VENDOR_ID, PRODUCT_ID)>>
    /\ opens = <<2>>
    /\ Len(xfers) = 1
    /\ xfers[1].idx = 2

\* C8: load_state returns the default (white = 7, 100) whenever the state
\* file is absent, cannot be opened, or is shorter than two bytes.
C8_DefaultOnShort ==
    (loadInfo.called /\ (~loadInfo.opened \/ loadInfo.len < 2)) =>
        loaded = [color_id |-> 7, brightness |-> 100]

NoColorOption(av) == \A i \in 1..Len(av) : av[i] \notin {"--color", "-c"}

NoBrightnessOption(av) == \A i \in 1..Len(av) : av[i] \notin {"--brightness", "-b"}

\* C9 as claimed: with the state file touched by the program alone, the
\* setting an invocation loads is that of the most recent earlier invocation
\* whose transfer succeeded, or (white, 100) if there was none, and a field
\* the arguments omit is sent with that value.
C9_LoadsLastApplied ==
    (pristine /\ loadInfo.called) =>
        /\ StateBytes(loaded) = lastApplied
        /\ sendArgs # <<>> =>
              /\ NoColorOption(argv) => sendArgs[1] = lastApplied[1]
              /\ NoBrightnessOption(argv) => sendArgs[2] = lastApplied[2]

\* What an invocation loads: the default when the file is there but cannot be
\* opened for reading, else the last setting written.
C9_Expected ==
    IF loadInfo.present /\ ~loadInfo.opened THEN <<7, 100>> ELSE lastSaved

\* C9 as amended: with the state file touched by the program alone, the
\* setting an invocation loads is that of the most recent earlier invocation
\* whose transfer succeeded and whose save_state could open the file for
\* writing, or (white, 100) if there was none or if the file cannot be opened
\* for reading; a field the arguments omit is sent with that value.
C9_LoadsLastSaved ==
    (pristine /\ loadInfo.called) =>
        /\ StateBytes(loaded) = C9_Expected
        /\ sendArgs # <<>> =>
              /\ NoColorOption(argv) => sendArgs[1] = C9_Expected[1]
              /\ NoBrightnessOption(argv) => sendArgs[2] = C9_Expected[2]

C9_Witness ==
    /\ pristine
    /\ pc = "scan"
    /\ argv = <<Prog, "--brightness", "0">>
    /\ lastSaved = <<4, 50>>
    /\ lastApplied = <<7, 50>>
    /\ loadInfo.opened
    /\ StateBytes(loaded) = <<4, 50>>
    /\ sendArgs = <<4, 0>>

StrictlyIncreasing(q) == \A i \in 1..(Len(q) - 1) : q[i] < q[i + 1]

C10_Order ==
    /\ StrictlyIncreasing(opens)
    /\ StrictlyIncreasing([i \in 1..Len(xfers) |-> xfers[i].idx])
    /\ \A i \in 1..Len(xfers) : xfers[i].idx \in Range(opens)
    /\ \A i \in 1..Len(opens) : opens[i] \in 1..idx
    /\ \A i \in 1..(Len(xfers) - 1) : xfers[i].ret # 9
    /\ Accepted => (Last(opens) = Last(xfers).idx /\ idx = Last(xfers).idx)
    /\ (pc = "scan" /\ ~Accepted) => ~success
    /\ (pc = "exited" /\ sendArgs # <<>>) =>
          /\ exitCode = 1 <=> ~Accepted
          /\ exitCode = 0 <=> Accepted

\* C10: entries are tried in enumeration order, each opened and sent to at
\* most once; after the first transfer that returns 9 no further entry is
\* opened or sent to; a failed open or any other return value does not end
\* the scan; send_packet reports failure exactly when no transfer returned 9;
\* the scan always ends.
C10_ScanOrderAndEnd ==
    /\ []C10_Order
    /\ (pc = "scan") ~> (pc = "exited")

C10_Witness ==
    /\ pc = "exited"
    /\ opens = <<1, 2>>
    /\ Len(xfers) = 2
    /\ xfers[1].idx = 1 /\ xfers[1].ret = 8
    /\ xfers[2].idx = 2 /\ xfers[2].ret = 9
    /\ exitCode = 0

============================================================================
